---- MODULE Spec2Model ----
(***************************************************************************)
(* A model of dfdi's Context (dfdi-core/src/context.rs): the table of      *)
(* type-erased providers, its bind / unbind / resolve protocol, sub-       *)
(* contexts made by scoped(), and the release of the boxed providers; the   *)
(* panicking variants of these calls; and the providers of the dfdi crate  *)
(* (src/cached.rs, src/cached_service.rs) bound into such a Context.       *)
(***************************************************************************)
EXTENDS Integers, FiniteSets, Sequences, TLC

\* ---------------------------------------------------------------- bounds
MaxCtx == 3          \* Contexts ever constructed: the root and its sub-contexts
MaxProv == 2         \* provider values ever handed to try_bind_with
MaxCalls == 2        \* times the body of one provider is run
MaxCtxDI == 2        \* Contexts constructed where the provider types vary
MaxThreads == 3      \* threads calling provide on one shared Cached

Ctx == 1..MaxCtx
Prov == 1..MaxProv
Threads == 1..MaxThreads

\* The services (the types S used as keys) and the values providers return.
Svc == {"A", "B"}
Vals == {"admin", "guest"}

\* ------------------------------------------------------- keys and cells
\* TypeId::of::<S>(): the key of the providers map.
TypeId_of_Colliding(s) == 1

TypeId_of(s) == IF s = "A" THEN 1 ELSE 2

TypeIds == {TypeId_of(s) : s \in Svc}

\* std::any::type_name::<S>(), the payload of both errors.
type_name(s) == s

\* struct DynProvider { this, provide_fn, drop_fn }.  `this` is the address
\* of the boxed provider, provide_fn is P::provide monomorphised for the
\* service S it was created for, drop_fn is Some only on the original.
NoCell == [this |-> 0, provide_fn |-> "none", drop_fn |-> FALSE]

DynProvider_new(s, p) == [this |-> p, provide_fn |-> s, drop_fn |-> TRUE]

DynProvider_clone_KeepsDrop(cell) == cell

DynProvider_clone(cell) ==
    IF cell = NoCell THEN NoCell ELSE [cell EXCEPT !.drop_fn = FALSE]

HashMap_new == [t \in TypeIds |-> NoCell]

HashMap_clone_Empty(tbl) == [t \in TypeIds |-> NoCell]

HashMap_clone(tbl) == [t \in TypeIds |-> DynProvider_clone(tbl[t])]

\* match self.providers.entry(..) { Vacant / Occupied }
Entry_Occupied_Never(tbl, t) == FALSE

Entry_Occupied_OwnOnly(tbl, t) == tbl[t] # NoCell /\ tbl[t].drop_fn

Entry_Occupied(tbl, t) == tbl[t] # NoCell

\* self.providers.remove(..): the Option it returns, and the map it leaves.
Remove_IsSome_Always(tbl, t) == TRUE

Remove_IsSome_OwnOnly(tbl, t) == tbl[t] # NoCell /\ tbl[t].drop_fn

Remove_IsSome(tbl, t) == tbl[t] # NoCell

HashMap_remove_Keeps(tbl, t) == tbl

HashMap_remove(tbl, t) == [tbl EXCEPT ![t] = NoCell]

\* self.providers.get(..): the cell it returns, and the map it leaves.
HashMap_get(tbl, t) == tbl[t]

HashMap_after_get_Taken(tbl, t) == [tbl EXCEPT ![t] = NoCell]

HashMap_after_get(tbl, t) == tbl

\* ----------------------------------------------------------------- state
VARIABLES
    cstate,      \* per Context slot: "unused", "live" or "dropped"
    parent,      \* the Context a slot was scoped() from, 0 for Context::new()
    usable,      \* the borrow 'pcx a scoped Context holds on its parent is live
    providers,   \* Context.providers: TypeId -> DynProvider (NoCell = vacant)
    pstate,      \* per provider value: "unalloc", "boxed", "freed", "dropped"
    pval,        \* the value a provider returns from provide
    dropCalls,   \* how many times drop_provider ran on the provider's box
    nextCtx,     \* next free Context slot
    nextProv,    \* next free provider value
    pimpl,       \* per provider value: which provider type it is
    cache,       \* Cached.cache: the OnceCell of a memoizing provider
    calls,       \* how many times the provider's own body has run
    running,     \* per OnceCell: the thread running its initializer, or 0
    thr,         \* per thread: where it is in a call of Cached::provide
    last         \* the call just made and what it returned

vars == <<cstate, parent, usable, providers, pstate, pval, dropCalls,
          nextCtx, nextProv, pimpl, cache, calls, running, thr, last>>

\* The variables of the Context, and those of the threads.
cvars == <<cstate, parent, usable, providers, pstate, pval, dropCalls,
           nextCtx, nextProv, last>>

tvars == <<running, thr>>

\* `refs` are the boxed providers a returned value borrows from, `hit` says
\* that a OnceCell was found initialized, `panic` that the call unwound,
\* `via` names the panicking method when the call was made through one.
NoCall == [op |-> "init", cx |-> 0, svc |-> "none", ok |-> TRUE,
           err |-> "none", name |-> "none", out |-> "none", prov |-> 0,
           fn |-> "none", child |-> 0, refs |-> {}, hit |-> FALSE,
           panic |-> FALSE, via |-> "try"]

\* The provider types bound in the model.  CachedService(v) returns a
\* reference to the value it holds; Counting is a closure that increments a
\* counter it owns and returns the count; Flaky is a closure whose first
\* call returns Err and whose later calls return Ok; Auth is the closure of
\* examples/hello_world.rs, which resolves the service "A" through the
\* Context it is given and returns Ok for "admin" and Err otherwise.
\* Cached(P) is Cached::new(P).
NoImpl == [kind |-> "none", cached |-> FALSE]

CachedService(v) == [kind |-> "CachedService", cached |-> FALSE, val |-> v]

Closure(k) == [kind |-> k, cached |-> FALSE, val |-> "none"]

Cached(P) == [P EXCEPT !.cached = TRUE]

\* What the box of a provider value of type P holds besides its value.
ImplOf(P) == [kind |-> P.kind, cached |-> P.cached]

\* The providers a Context of the basic protocol is given.
FixedProviders == {CachedService(v) : v \in Vals}

\* OnceCell::new(): the uninitialized cell.
OnceCell_new == [out |-> "uninit", refs |-> {}]

Call(op, c, s) == [NoCall EXCEPT !.op = op, !.cx = c, !.svc = s]

\* The Contexts scoped, directly or transitively, from c.
RECURSIVE Ancestors(_)
Ancestors(c) ==
    IF parent[c] = 0 THEN {} ELSE {parent[c]} \cup Ancestors(parent[c])

Descendants(c) == {d \in Ctx : cstate[d] # "unused" /\ c \in Ancestors(d)}

\* A `&mut self` call on c, or moving c, ends every borrow taken from c by
\* scoped(): the sub-contexts can from then on only be dropped.
EndBorrows(c) == [d \in Ctx |-> IF d \in Descendants(c) THEN FALSE ELSE usable[d]]

Usable(c) == cstate[c] = "live" /\ usable[c]

\* impl Drop for DynProvider, applied to a set of cells: the boxes released.
DynProvider_drop(cell) == IF cell # NoCell /\ cell.drop_fn THEN {cell.this} ELSE {}

DropCells(cells) == UNION {DynProvider_drop(cell) : cell \in cells}

\* How many of `cells` run drop_provider on the box p when they are dropped.
ReleaseCount(cells, p) == Cardinality({cell \in cells : p \in DynProvider_drop(cell)})

\* Context::new() has made the root Context, slot 1, with an empty map; the
\* other slots are for the sub-contexts scoped() makes.
Root == 1

\* A thread that is not inside Cached::provide.
Idle == [pc |-> "idle", out |-> "none", waited |-> FALSE, hit |-> FALSE]

InitContext ==
    /\ running = [p \in Prov |-> 0]
    /\ thr = [t \in Threads |-> Idle]
    /\ cstate = [c \in Ctx |-> IF c = Root THEN "live" ELSE "unused"]
    /\ parent = [c \in Ctx |-> 0]
    /\ usable = [c \in Ctx |-> c = Root]
    /\ providers = [c \in Ctx |-> HashMap_new]
    /\ pstate = [p \in Prov |-> "unalloc"]
    /\ pval = [p \in Prov |-> "none"]
    /\ dropCalls = [p \in Prov |-> 0]
    /\ nextCtx = Root + 1
    /\ nextProv = 1
    /\ cache = [p \in Prov |-> OnceCell_new]
    /\ calls = [p \in Prov |-> 0]
    /\ last = NoCall

Init == InitContext /\ pimpl = [p \in Prov |-> NoImpl]

\* ------------------------------------------------------------ operations
\* Running drop on every cell of `cells`: each box with a drop_fn is freed.
Released(cells) ==
    /\ pstate' = [p \in Prov |->
                    IF p \in DropCells(cells) THEN "freed" ELSE pstate[p]]
    /\ dropCalls' = [p \in Prov |-> dropCalls[p] + ReleaseCount(cells, p)]

\* e.insert(..) on the entry of c's map.
Insert_IntoParentToo(provs, c, t, cell) ==
    [x \in Ctx |-> IF x = c \/ x = parent[c]
                   THEN [provs[x] EXCEPT ![t] = cell] ELSE provs[x]]

Insert(provs, c, t, cell) == [provs EXCEPT ![c][t] = cell]

\* Context::scoped(&self) -> Context<'_>
scoped(c) ==
    /\ Usable(c)
    /\ nextCtx <= MaxCtx
    /\ cstate' = [cstate EXCEPT ![nextCtx] = "live"]
    /\ parent' = [parent EXCEPT ![nextCtx] = c]
    /\ usable' = [usable EXCEPT ![nextCtx] = TRUE]
    /\ providers' = [providers EXCEPT ![nextCtx] = HashMap_clone(providers[c])]
    /\ nextCtx' = nextCtx + 1
    /\ last' = [Call("scoped", c, "none") EXCEPT !.child = nextCtx]
    /\ UNCHANGED <<pstate, pval, dropCalls, nextProv, pimpl, cache, calls>>
    /\ UNCHANGED tvars

\* What try_bind_with::<S>() on c returns for the provider value nextProv:
\* Ok(()), or Err(BindError::ServiceBound(type_name::<S>())).
BindCall(c, s) ==
    IF ~Entry_Occupied(providers[c], TypeId_of(s))
    THEN [Call("bind", c, s) EXCEPT !.prov = nextProv]
    ELSE [Call("bind", c, s) EXCEPT !.prov = nextProv, !.ok = FALSE,
             !.err = "ServiceBound", !.name = type_name(s)]

\* What try_bind_with::<S>(&mut self, provider) does to c, the provider
\* being the value nextProv, of the provider type P.
try_bind_with_effect(c, s, P) ==
    LET p == nextProv
        t == TypeId_of(s)
    IN  /\ Usable(c)
        /\ nextProv <= MaxProv
        /\ nextProv' = nextProv + 1
        /\ pval' = [pval EXCEPT ![p] = P.val]
        /\ usable' = EndBorrows(c)
        /\ IF ~Entry_Occupied(providers[c], t)
           THEN \* Vacant: box the provider and store its cell
                /\ providers' = Insert(providers, c, t, DynProvider_new(s, p))
                /\ pstate' = [pstate EXCEPT ![p] = "boxed"]
                /\ pimpl' = [pimpl EXCEPT ![p] = ImplOf(P)]
                /\ dropCalls' = dropCalls
           ELSE \* Occupied: the provider argument is dropped unused
                /\ providers' = providers
                /\ pstate' = [pstate EXCEPT ![p] = "dropped"]
                /\ pimpl' = pimpl
                /\ dropCalls' = dropCalls
        /\ UNCHANGED <<cstate, parent, nextCtx, cache, calls>>
        /\ UNCHANGED tvars

\* scoped() while fewer than n Contexts have been constructed.
scoped_upto(c, n) == nextCtx <= n /\ scoped(c)

\* Context::try_bind_with::<S>(&mut self, provider)
try_bind_with(c, s, P) ==
    /\ try_bind_with_effect(c, s, P)
    /\ last' = BindCall(c, s)

\* What try_unbind::<S>() on c returns: Ok(()), or
\* Err(UnbindError::ServiceUnbound(type_name::<S>())).
UnbindCall(c, s) ==
    IF Remove_IsSome(providers[c], TypeId_of(s))
    THEN [Call("unbind", c, s) EXCEPT !.prov = providers[c][TypeId_of(s)].this]
    ELSE [Call("unbind", c, s) EXCEPT !.ok = FALSE,
             !.err = "ServiceUnbound", !.name = type_name(s)]

\* What try_unbind::<S>(&mut self) does to c.
try_unbind_effect(c, s) ==
    LET t == TypeId_of(s)
        removed == providers[c][t]
    IN  /\ Usable(c)
        /\ usable' = EndBorrows(c)
        /\ IF Remove_IsSome(providers[c], t)
           THEN \* Some(_): the removed DynProvider is dropped
                /\ providers' = [providers EXCEPT ![c] = HashMap_remove(@, t)]
                /\ Released({removed})
           ELSE /\ providers' = providers
                /\ UNCHANGED <<pstate, dropCalls>>
        /\ UNCHANGED <<cstate, parent, pval, nextCtx, nextProv, pimpl, cache,
                       calls>>
        /\ UNCHANGED tvars

\* Context::try_unbind::<S>(&mut self)
try_unbind(c, s) ==
    /\ try_unbind_effect(c, s)
    /\ last' = UnbindCall(c, s)

\* What a provide call returns: the output, the boxes it borrows from, and
\* the OnceCells and counters the call leaves behind.
Ret(out, refs, st) ==
    [ok |-> TRUE, out |-> out, refs |-> refs, panic |-> FALSE, hit |-> FALSE,
     prov |-> 0, fn |-> "none", cache |-> st.cache, calls |-> st.calls]

\* The provider's body is entered once more.
Entered(p, st) == [st EXCEPT !.calls[p] = @ + 1]

RECURSIVE TryResolveIn(_, _, _)

\* CachedService::provide and CachedRef::provide: `&self.0`.
CachedService_provide_Fresh(p, st) ==
    {Ret(CHOOSE v \in Vals : v # pval[p], {}, Entered(p, st))}

CachedService_provide(p, st) == {Ret(pval[p], {p}, st)}

\* A closure that counts its calls and returns the count.
Counting_provide(p, st) ==
    {Ret(ToString(st.calls[p] + 1), {}, Entered(p, st))}

\* A closure that fails on its first call only.
Flaky_provide(p, st) ==
    {Ret(IF st.calls[p] = 0 THEN "Err(InvalidAuth)" ELSE "Ok(admin)", {},
         Entered(p, st))}

\* A closure that panics on its first call only.
Panicky_provide(p, st) ==
    {IF st.calls[p] = 0
     THEN [Ret("none", {}, Entered(p, st)) EXCEPT !.panic = TRUE]
     ELSE Ret("Ok(admin)", {}, Entered(p, st))}

\* The closure of examples/hello_world.rs: cx.resolve::<A>() panics when A
\* has no provider in cx; the User it returns borrows from what A returned.
Auth_provide_ViaRoot(p, c, st) ==
    {IF ~r.ok
     THEN [Ret("none", {}, r) EXCEPT !.panic = TRUE]
     ELSE IF r.out = "admin"
          THEN Ret("Ok(admin)", r.refs, r)
          ELSE Ret("Err(InvalidAuth)", {}, r) :
     r \in TryResolveIn(Root, "A", Entered(p, st))}

Auth_provide(p, c, st) ==
    {IF ~r.ok
     THEN [Ret("none", {}, r) EXCEPT !.panic = TRUE]
     ELSE IF r.out = "admin"
          THEN Ret("Ok(admin)", r.refs, r)
          ELSE Ret("Err(InvalidAuth)", {}, r) :
     r \in TryResolveIn(c, "A", Entered(p, st))}

\* P::provide of the provider value p, called with the Context c.
Inner_provide(p, c, st) ==
    CASE pimpl[p].kind = "CachedService" -> CachedService_provide(p, st)
      [] pimpl[p].kind = "Counting" -> Counting_provide(p, st)
      [] pimpl[p].kind = "Flaky" -> Flaky_provide(p, st)
      [] pimpl[p].kind = "Auth" -> Auth_provide(p, c, st)
      [] pimpl[p].kind = "Panicky" -> Panicky_provide(p, st)
      [] OTHER -> {Ret("undefined", {}, st)}

\* Cached::provide: self.cache.get_or_init(|| self.provider.provide(cx)).
\* An initialized cell is returned as it is; otherwise the wrapped provider
\* runs and its output is stored, unless it panicked.  The reference
\* returned points into the Cached itself.
Cached_provide_NoStore(p, c, st) == Inner_provide(p, c, st)

Cached_provide_OkOnly(p, c, st) ==
    IF st.cache[p] # OnceCell_new
    THEN {[Ret(st.cache[p].out, st.cache[p].refs \cup {p}, st)
              EXCEPT !.hit = TRUE]}
    ELSE {IF r.panic \/ r.out = "Err(InvalidAuth)"
          THEN r
          ELSE [r EXCEPT !.cache[p] = [out |-> r.out, refs |-> r.refs],
                         !.refs = r.refs \cup {p}] :
          r \in Inner_provide(p, c, st)}

Cached_provide_PerContext(p, c, st) ==
    IF st.cache[p] # OnceCell_new /\ c = Root
    THEN {[Ret(st.cache[p].out, st.cache[p].refs \cup {p}, st)
              EXCEPT !.hit = TRUE]}
    ELSE {IF r.panic
          THEN r
          ELSE [r EXCEPT !.cache[p] = [out |-> r.out, refs |-> r.refs],
                         !.refs = r.refs \cup {p}] :
          r \in Inner_provide(p, c, st)}

Cached_provide(p, c, st) ==
    IF st.cache[p] # OnceCell_new
    THEN {[Ret(st.cache[p].out, st.cache[p].refs \cup {p}, st)
              EXCEPT !.hit = TRUE]}
    ELSE {IF r.panic
          THEN r
          ELSE [r EXCEPT !.cache[p] = [out |-> r.out, refs |-> r.refs],
                         !.refs = r.refs \cup {p}] :
          r \in Inner_provide(p, c, st)}

Provider_provide(p, c, st) ==
    IF pimpl[p].cached THEN Cached_provide(p, c, st) ELSE Inner_provide(p, c, st)

\* DynProvider::provide::<S>(&self, cx): transmutes provide_fn to
\* ProvideFn<S> and calls it on `this`.  Calling it as another service than
\* the one the cell was made for, or on a freed box, is undefined behaviour:
\* any value, or a crash, may come out.
DynProvider_provide(cell, s, c, st) ==
    IF cell.provide_fn = s /\ pstate[cell.this] = "boxed"
    THEN Provider_provide(cell.this, c, st)
    ELSE {Ret(out, {}, st) : out \in Vals \cup {"undefined"}}

\* try_resolve::<S>() on c, run with the OnceCells and counters st.
TryResolveIn(c, s, st) ==
    LET cell == HashMap_get(providers[c], TypeId_of(s))
    IN  IF cell = NoCell
        THEN {[Ret("none", {}, st) EXCEPT !.ok = FALSE]}
        ELSE {[r EXCEPT !.ok = ~r.panic, !.prov = cell.this,
                        !.fn = cell.provide_fn] :
              r \in DynProvider_provide(cell, s, c, st)}

ResolveRuns(c, s) == TryResolveIn(c, s, [cache |-> cache, calls |-> calls])

\* The call record of a run of try_resolve.
ResolveCall(c, s, r) ==
    [Call("resolve", c, s) EXCEPT !.ok = r.ok, !.out = r.out, !.prov = r.prov,
        !.fn = r.fn, !.refs = r.refs, !.hit = r.hit, !.panic = r.panic]

\* What try_resolve::<S>() on c can return: None, or Some(output).
ResolveOutcomes(c, s) == {ResolveCall(c, s, r) : r \in ResolveRuns(c, s)}

\* What try_resolve::<S>(&self) on c does when it runs as r.
try_resolve_effect(c, s, r) ==
    /\ Usable(c)
    /\ \A p \in Prov : r.calls[p] <= MaxCalls
    /\ cache' = r.cache
    /\ calls' = r.calls
    /\ providers' = [providers EXCEPT
                        ![c] = HashMap_after_get(@, TypeId_of(s))]
    /\ UNCHANGED <<cstate, parent, usable, pstate, pval,
                   dropCalls, nextCtx, nextProv, pimpl>>
    /\ UNCHANGED tvars

\* Context::try_resolve::<S>(&self)
try_resolve(c, s) ==
    \E r \in ResolveRuns(c, s) :
        /\ try_resolve_effect(c, s, r)
        /\ last' = ResolveCall(c, s, r)

\* A Context going out of scope (or drop(cx)): its map drops every cell.
Context_drop(c) ==
    /\ cstate[c] = "live"
    /\ cstate' = [cstate EXCEPT ![c] = "dropped"]
    /\ usable' = [EndBorrows(c) EXCEPT ![c] = FALSE]
    /\ providers' = [providers EXCEPT ![c] = HashMap_new]
    /\ Released({providers[c][t] : t \in TypeIds})
    /\ last' = Call("drop", c, "none")
    /\ UNCHANGED <<parent, pval, nextCtx, nextProv, pimpl, cache, calls>>
    /\ UNCHANGED tvars

Next ==
    \/ \E c \in Ctx : scoped(c)
    \/ \E c \in Ctx, s \in Svc, P \in FixedProviders : try_bind_with(c, s, P)
    \/ \E c \in Ctx, s \in Svc : try_unbind(c, s)
    \/ \E c \in Ctx, s \in Svc : try_resolve(c, s)
    \/ \E c \in Ctx : Context_drop(c)

Spec == Init /\ [][Next]_vars

\* ------------------------------------------------- the panicking methods
\* `if let Err(err) = self.try_..() { panic!("{}", err) }`
PanicOnErr_Never(r, via) == [r EXCEPT !.via = via]

PanicOnErr(r, via) == [r EXCEPT !.via = via, !.panic = ~r.ok]

\* `match self.try_resolve::<S>() { Some(s) => s, None => panic!(..) }`
PanicOnNone(r, via) == [r EXCEPT !.via = via, !.panic = ~r.ok]

\* P::default() of a provider type that returns a fixed value.
Default_default == CachedService("guest")

\* Context::bind_with::<S>(&mut self, provider)
bind_with(c, s, P) ==
    /\ try_bind_with_effect(c, s, P)
    /\ last' = PanicOnErr(BindCall(c, s), "bind_with")

\* Context::bind_fn::<S>(&mut self, provider_fn), through try_bind_fn
bind_fn(c, s, k) ==
    /\ try_bind_with_effect(c, s, Closure(k))
    /\ last' = PanicOnErr(BindCall(c, s), "bind_fn")

\* Context::bind::<S, P>(&mut self), through try_bind
bind(c, s) ==
    /\ try_bind_with_effect(c, s, Default_default)
    /\ last' = PanicOnErr(BindCall(c, s), "bind")

\* Context::unbind::<S>(&mut self)
unbind(c, s) ==
    /\ try_unbind_effect(c, s)
    /\ last' = PanicOnErr(UnbindCall(c, s), "unbind")

\* Context::resolve::<S>(&self)
resolve(c, s) ==
    \E r \in ResolveRuns(c, s) :
        /\ try_resolve_effect(c, s, r)
        /\ last' = PanicOnNone(ResolveCall(c, s, r), "resolve")

\* The providers handed to the panicking methods.
VeneerProviders ==
    FixedProviders \cup {Closure("Counting"), Default_default}

NextVeneer ==
    \/ \E c \in Ctx : scoped_upto(c, MaxCtxDI)
    \/ \E c \in Ctx, s \in Svc, P \in FixedProviders : bind_with(c, s, P)
    \/ \E c \in Ctx, s \in Svc : bind_fn(c, s, "Counting")
    \/ \E c \in Ctx, s \in Svc : bind(c, s)
    \/ \E c \in Ctx, s \in Svc : unbind(c, s)
    \/ \E c \in Ctx, s \in Svc : resolve(c, s)
    \/ \E c \in Ctx : Context_drop(c)

SpecVeneer == Init /\ [][NextVeneer]_vars

\* ------------------------------------------ one Cached shared by threads
\* A Cached::new(closure) value that threads share by reference, each
\* calling Cached::provide on it (the Context is not Sync, so the threads do
\* not go through one Context's try_resolve).
Shared == 1

SharedClosures == {"Counting", "Flaky"}

InitOnce ==
    /\ InitContext
    /\ pimpl \in {[p \in Prov |-> IF p = Shared
                                  THEN ImplOf(Cached(Closure(k))) ELSE NoImpl] :
                  k \in SharedClosures}

\* once_cell's OnceCell: whether some thread is running the initializer.
OnceCell_is_running_Never(p) == FALSE

OnceCell_is_running(p) == running[p] # 0

\* A thread calls Cached::provide on the shared value.
Cached_provide_call(t) ==
    /\ thr[t].pc \in {"idle", "done", "panicked"}
    /\ thr' = [thr EXCEPT ![t] = [Idle EXCEPT !.pc = "get"]]
    /\ UNCHANGED <<cvars, pimpl, cache, calls, running>>

\* get_or_init: an initialized cell is returned; a thread finding the
\* initializer running waits; otherwise the thread becomes the initializer.
get_or_init(t) ==
    /\ thr[t].pc = "get"
    /\ IF cache[Shared] # OnceCell_new
       THEN /\ thr' = [thr EXCEPT ![t].pc = "done",
                                  ![t].out = cache[Shared].out,
                                  ![t].hit = TRUE]
            /\ running' = running
       ELSE IF OnceCell_is_running(Shared)
            THEN /\ thr' = [thr EXCEPT ![t].pc = "wait", ![t].waited = TRUE]
                 /\ running' = running
            ELSE /\ thr' = [thr EXCEPT ![t].pc = "init"]
                 /\ running' = [running EXCEPT ![Shared] = t]
    /\ UNCHANGED <<cvars, pimpl, cache, calls>>

\* The initializer closure: self.provider.provide(cx).  A panic of the
\* wrapped provider unwinds through get_or_init.
get_or_init_run(t) ==
    /\ thr[t].pc = "init"
    /\ \E r \in Inner_provide(Shared, 0, [cache |-> cache, calls |-> calls]) :
          /\ r.calls[Shared] <= MaxCalls
          /\ calls' = r.calls
          /\ thr' = [thr EXCEPT ![t].pc = IF r.panic THEN "unwind" ELSE "store",
                                 ![t].out = r.out]
    /\ UNCHANGED <<cvars, pimpl, cache, running>>

\* The initializer leaves get_or_init, by return or by unwinding: no
\* initializer is running any more, and the waiting threads can be woken.
OnceCell_leave_StaysRunning(run, p) == run

OnceCell_leave(run, p) == [run EXCEPT ![p] = 0]

\* The cell an initializer that panicked leaves behind: as it found it.
OnceCell_after_panic_Poisoned(cell) == [out |-> "poisoned", refs |-> {}]

OnceCell_after_panic(cell) == cell

\* The initializer's output is stored and the cell marked complete.
get_or_init_store(t) ==
    /\ thr[t].pc = "store"
    /\ cache' = [cache EXCEPT ![Shared] = [out |-> thr[t].out, refs |-> {}]]
    /\ running' = OnceCell_leave(running, Shared)
    /\ thr' = [thr EXCEPT ![t].pc = "done"]
    /\ UNCHANGED <<cvars, pimpl, calls>>

\* The initializer panicked: nothing is stored, the panic goes on to the
\* caller of provide.
get_or_init_unwind(t) ==
    /\ thr[t].pc = "unwind"
    /\ cache' = [cache EXCEPT ![Shared] = OnceCell_after_panic(@)]
    /\ running' = OnceCell_leave(running, Shared)
    /\ thr' = [thr EXCEPT ![t].pc = "panicked"]
    /\ UNCHANGED <<cvars, pimpl, calls>>

\* A waiting thread is woken when the initializer has left.
get_or_init_wake(t) ==
    /\ thr[t].pc = "wait"
    /\ ~OnceCell_is_running(Shared)
    /\ thr' = [thr EXCEPT ![t].pc = "get"]
    /\ UNCHANGED <<cvars, pimpl, cache, calls, running>>

NextOnce ==
    \/ \E t \in Threads : Cached_provide_call(t)
    \/ \E t \in Threads : get_or_init(t)
    \/ \E t \in Threads : get_or_init_run(t)
    \/ \E t \in Threads : get_or_init_store(t)
    \/ \E t \in Threads : get_or_init_wake(t)

SpecOnce == InitOnce /\ [][NextOnce]_vars

\* The shared Cached wraps any of the closures, the panicking one included,
\* and the threads are scheduled fairly: a thread inside provide that can
\* take its next step takes it.  A thread outside provide need not call.
AnyClosures == SharedClosures \cup {"Panicky"}

InitOnceAny ==
    /\ InitContext
    /\ pimpl \in {[p \in Prov |-> IF p = Shared
                                  THEN ImplOf(Cached(Closure(k))) ELSE NoImpl] :
                  k \in AnyClosures}

Thread_step(t) ==
    \/ get_or_init(t)
    \/ get_or_init_run(t)
    \/ get_or_init_store(t)
    \/ get_or_init_unwind(t)
    \/ get_or_init_wake(t)

NextOnceAny ==
    \/ \E t \in Threads : Cached_provide_call(t)
    \/ \E t \in Threads : get_or_init(t)
    \/ \E t \in Threads : get_or_init_run(t)
    \/ \E t \in Threads : get_or_init_store(t)
    \/ \E t \in Threads : get_or_init_unwind(t)
    \/ \E t \in Threads : get_or_init_wake(t)

SpecOnceFair ==
    /\ InitOnceAny
    /\ [][NextOnceAny]_vars
    /\ \A t \in Threads : WF_vars(Thread_step(t))

\* The providers bound in the specification of the provider types: the
\* fixed values, the counting closure, and Cached wrapped around the
\* closures; Auth, which resolves service "A", is a provider of service "B"
\* only, and is bound bare as well.
AllProviders(s) ==
    FixedProviders
        \cup {Closure("Counting")}
        \cup {Cached(Closure("Counting")), Cached(Closure("Flaky"))}
        \cup (IF s = "B" THEN {Closure("Auth"), Cached(Closure("Auth"))} ELSE {})

NextDI ==
    \/ \E c \in Ctx : scoped_upto(c, MaxCtxDI)
    \/ \E c \in Ctx, s \in Svc : \E P \in AllProviders(s) : try_bind_with(c, s, P)
    \/ \E c \in Ctx, s \in Svc : try_unbind(c, s)
    \/ \E c \in Ctx, s \in Svc : try_resolve(c, s)
    \/ \E c \in Ctx : Context_drop(c)

SpecDI == Init /\ [][NextDI]_vars

TypeOK ==
    /\ cstate \in [Ctx -> {"unused", "live", "dropped"}]
    /\ parent \in [Ctx -> 0..MaxCtx]
    /\ usable \in [Ctx -> BOOLEAN]
    /\ pstate \in [Prov -> {"unalloc", "boxed", "freed", "dropped"}]
    /\ nextCtx \in 1..(MaxCtx + 1)
    /\ nextProv \in 1..(MaxProv + 1)

\* ---------------------------------------------------------------- claims
\* The cell c's map holds under the key of service s.
CellOf(c, s) == providers[c][TypeId_of(s)]

\* The cell of s in c is a duplicate made by scoped(), not c's own binding.
Inherited(c, s) == CellOf(c, s) # NoCell /\ ~CellOf(c, s).drop_fn

\* C1: in every state, the cell a map holds under the key of service s was
\* made by DynProvider::new for s, and a resolve of s that found a cell
\* called a provide_fn made for s.
C1_CellMadeForItsKey ==
    /\ \A c \in Ctx, s \in Svc :
          CellOf(c, s) # NoCell => CellOf(c, s).provide_fn = s
    /\ (last.op = "resolve" /\ last.ok) => last.fn = last.svc

\* Both services are bound and the sub-context resolved one of them through
\* an inherited cell.
C1_Witness ==
    /\ last.op = "resolve" /\ last.ok /\ last.cx # Root
    /\ \A s \in Svc : Inherited(last.cx, s)
    /\ last.fn = last.svc

\* C2: a try_bind_with of s on a Context whose map already holds a cell for
\* s returns Err(ServiceBound(type_name(s))), leaves every map as it was,
\* drops the provider it was given without boxing it, and leaves what a
\* resolve of s returns unchanged; a provider dropped that way is in no map
\* and is never the provider a resolve invoked.
C2_BindOccupiedFails ==
    [][ /\ \A c \in Ctx, s \in Svc :
            (last'.op = "bind" /\ last'.cx = c /\ last'.svc = s
                /\ CellOf(c, s) # NoCell) =>
              /\ ~last'.ok
              /\ last'.err = "ServiceBound"
              /\ last'.name = type_name(s)
              /\ providers' = providers
              /\ pstate'[last'.prov] = "dropped"
              /\ dropCalls' = dropCalls
              /\ ResolveOutcomes(c, s)' = ResolveOutcomes(c, s)
        /\ \A p \in Prov : pstate'[p] = "dropped" =>
            /\ \A c \in Ctx, t \in TypeIds : providers'[c][t].this # p
            /\ last'.op = "resolve" => last'.prov # p
      ]_vars

\* A second bind of s was refused while the first provider, which returns
\* another value than the refused one, is still boxed and bound.
C2_Witness ==
    /\ last.op = "bind" /\ ~last.ok /\ last.err = "ServiceBound"
    /\ CellOf(last.cx, last.svc) # NoCell
    /\ pstate[CellOf(last.cx, last.svc).this] = "boxed"
    /\ pval[CellOf(last.cx, last.svc).this] # pval[last.prov]

\* C3: try_resolve of s returns None exactly when the map has no cell for
\* s, and otherwise Some of the value the bound provider returns; right
\* after a successful bind of s a resolve returns the new provider's value,
\* and right after a successful unbind of s it returns None.
C3_ResolveFollowsBinding ==
    [][ \A c \in Ctx, s \in Svc : (last'.cx = c /\ last'.svc = s) =>
          /\ last'.op = "resolve" =>
              /\ last'.ok <=> CellOf(c, s) # NoCell
              /\ last'.ok =>
                   /\ last'.prov = CellOf(c, s).this
                   /\ last'.out = pval[last'.prov]
          /\ (last'.op = "bind" /\ last'.ok) =>
              \A r \in ResolveOutcomes(c, s)' :
                  r.ok /\ r.prov = last'.prov /\ r.out = pval'[last'.prov]
          /\ (last'.op = "unbind" /\ last'.ok) =>
              \A r \in ResolveOutcomes(c, s)' : ~r.ok
      ]_vars

\* A resolve returned None on the root after the provider once bound there
\* was released by an unbind, while the other service resolves.
C3_Witness ==
    /\ last.op = "resolve" /\ ~last.ok /\ last.cx = Root
    /\ \E p \in Prov : pstate[p] = "freed"
    /\ \E s \in Svc : CellOf(Root, s) # NoCell

\* C4: a try_unbind of s on a Context whose map has no cell for s returns
\* Err(ServiceUnbound(type_name(s))) and leaves every map and the released
\* providers as they were.
C4_UnbindVacantFails ==
    [][ \A c \in Ctx, s \in Svc :
          (last'.op = "unbind" /\ last'.cx = c /\ last'.svc = s
              /\ CellOf(c, s) = NoCell) =>
            /\ ~last'.ok
            /\ last'.err = "ServiceUnbound"
            /\ last'.name = type_name(s)
            /\ providers' = providers
            /\ pstate' = pstate
            /\ dropCalls' = dropCalls
      ]_vars

\* An unbind was refused on a Context that holds a binding of the other
\* service.
C4_Witness ==
    /\ last.op = "unbind" /\ ~last.ok /\ last.err = "ServiceUnbound"
    /\ \E s \in Svc : CellOf(last.cx, s) # NoCell /\ CellOf(last.cx, s).drop_fn

\* C5: scoped() on c succeeds, leaves c's map, every other map and every
\* provider as they were, and the new Context holds a cell for s exactly
\* when c does, for the same boxed provider, so that a resolve of s on it
\* returns what a resolve of s on c returns.
C5_ScopedCopiesParent ==
    [][ \A c \in Ctx, n \in Ctx :
          (last'.op = "scoped" /\ last'.cx = c /\ last'.child = n) =>
              /\ last'.ok
              /\ cstate[n] = "unused" /\ cstate'[n] = "live" /\ parent'[n] = c
              /\ \A x \in Ctx \ {n} : providers'[x] = providers[x]
              /\ pstate' = pstate /\ dropCalls' = dropCalls /\ pval' = pval
              /\ \A s \in Svc :
                    /\ (CellOf(n, s)' = NoCell) <=> (CellOf(c, s)' = NoCell)
                    /\ CellOf(n, s)'.this = CellOf(c, s)'.this
                    /\ {[r EXCEPT !.cx = c] : r \in ResolveOutcomes(n, s)'} =
                           ResolveOutcomes(c, s)'
      ]_vars

\* A sub-context was scoped from a sub-context that holds an inherited cell
\* and a binding of its own: the new one holds both.
C5_Witness ==
    /\ last.op = "scoped" /\ last.cx # Root
    /\ \E s \in Svc : Inherited(last.cx, s)
    /\ \E s \in Svc : CellOf(last.cx, s) # NoCell /\ CellOf(last.cx, s).drop_fn
    /\ \A s \in Svc : Inherited(last.child, s)

\* What a resolve of s on c can return, without the name of the Context.
Outputs(c, s) == {[r EXCEPT !.cx = 0] : r \in ResolveOutcomes(c, s)}

\* C6: a try_bind_with or try_unbind on c, refused or not, changes no map
\* but c's; what a resolve returns on any live Context that was not scoped
\* from c (its parent, its siblings) stays the same, and the Contexts that
\* were scoped from c keep their maps but can no longer be used.
C6_ScopeIsolation ==
    [][ \A c \in Ctx :
          (last'.op \in {"bind", "unbind"} /\ last'.cx = c) =>
            \A x \in Ctx \ {c} :
              /\ providers'[x] = providers[x]
              /\ (cstate[x] = "live" /\ x \notin Descendants(c)) =>
                    /\ usable'[x] = usable[x]
                    /\ \A s \in Svc : Outputs(x, s)' = Outputs(x, s)
              /\ x \in Descendants(c) => ~usable'[x]
      ]_vars

\* A sub-context bound a service that neither its parent nor its live
\* sibling holds, and all three can still be used.
C6_Witness ==
    /\ last.op = "bind" /\ last.ok /\ last.cx # Root /\ parent[last.cx] = Root
    /\ CellOf(Root, last.svc) = NoCell
    /\ Usable(Root) /\ Usable(last.cx)
    /\ \E x \in Ctx \ {Root, last.cx} :
          /\ parent[x] = Root /\ Usable(x)
          /\ CellOf(x, last.svc) = NoCell
          /\ \E s \in Svc : Inherited(x, s) /\ Inherited(last.cx, s)

\* C7 as stated: a try_bind_with of s on a sub-context that holds s only as
\* the cell inherited from its parent succeeds, the sub-context then
\* resolves s to the new provider and the parent to its own as before.
C7_AsStated ==
    [][ \A c \in Ctx, s \in Svc :
          (last'.op = "bind" /\ last'.cx = c /\ last'.svc = s
              /\ parent[c] # 0 /\ Inherited(c, s)) =>
            /\ last'.ok
            /\ \A r \in Outputs(c, s)' : r.prov = last'.prov
            /\ Outputs(parent[c], s)' = Outputs(parent[c], s)
      ]_vars

\* C7 amended: while the sub-context's map still holds the inherited cell of
\* s, a try_bind_with of s on it returns Err(ServiceBound) and changes no
\* map, so both Contexts resolve s to the parent's provider; once the
\* sub-context has removed that cell, a try_bind_with of s on it succeeds,
\* it resolves s to the new provider and the parent's map is unchanged.
C7_InheritedBlocksBind ==
    [][ \A c \in Ctx, s \in Svc :
          (last'.op = "bind" /\ last'.cx = c /\ last'.svc = s
              /\ parent[c] # 0 /\ CellOf(parent[c], s) # NoCell) =>
            /\ Inherited(c, s) =>
                /\ ~last'.ok /\ last'.err = "ServiceBound"
                /\ last'.name = type_name(s)
                /\ providers' = providers
                /\ Outputs(c, s)' = Outputs(parent[c], s)
            /\ CellOf(c, s) = NoCell =>
                /\ last'.ok
                /\ \A r \in Outputs(c, s)' :
                      r.ok /\ r.prov = last'.prov /\ r.out = pval'[last'.prov]
            /\ providers'[parent[c]] = providers[parent[c]]
            /\ Outputs(parent[c], s)' = Outputs(parent[c], s)
            /\ \A r \in Outputs(parent[c], s)' :
                  r.ok /\ r.out = pval[CellOf(parent[c], s).this]
      ]_vars

\* A bind was refused on a sub-context for a service it holds only as the
\* cell inherited from its live parent.
C7_Witness ==
    /\ last.op = "bind" /\ ~last.ok /\ last.cx # Root
    /\ Inherited(last.cx, last.svc)
    /\ cstate[parent[last.cx]] = "live"
    /\ CellOf(parent[last.cx], last.svc).this = CellOf(last.cx, last.svc).this
    /\ CellOf(parent[last.cx], last.svc).drop_fn

\* C8 as stated: a try_unbind of s on a sub-context that holds s only as
\* the cell inherited from its parent returns Err(ServiceUnbound) and
\* changes no map.
C8_AsStated ==
    [][ \A c \in Ctx, s \in Svc :
          (last'.op = "unbind" /\ last'.cx = c /\ last'.svc = s
              /\ parent[c] # 0 /\ Inherited(c, s)) =>
            /\ ~last'.ok /\ last'.err = "ServiceUnbound"
            /\ providers' = providers
      ]_vars

\* C8 amended: a try_unbind of s on a sub-context that holds s only as the
\* cell inherited from its parent succeeds and removes that cell from the
\* sub-context's map alone: the sub-context no longer resolves s, no
\* provider is released, and the parent's map and what it resolves s to are
\* unchanged.
C8_UnbindRemovesInherited ==
    [][ \A c \in Ctx, s \in Svc :
          (last'.op = "unbind" /\ last'.cx = c /\ last'.svc = s
              /\ parent[c] # 0 /\ Inherited(c, s)) =>
            /\ last'.ok
            /\ CellOf(c, s)' = NoCell
            /\ \A r \in Outputs(c, s)' : ~r.ok
            /\ \A u \in Svc \ {s} : CellOf(c, u)' = CellOf(c, u)
            /\ \A x \in Ctx \ {c} : providers'[x] = providers[x]
            /\ pstate' = pstate /\ dropCalls' = dropCalls
            /\ Outputs(parent[c], s)' = Outputs(parent[c], s)
            /\ \A r \in Outputs(parent[c], s)' : r.ok
      ]_vars

\* A sub-context unbound a service it held as an inherited cell: its parent
\* still holds the binding and the provider is still boxed.
C8_Witness ==
    /\ last.op = "unbind" /\ last.ok /\ last.cx # Root
    /\ CellOf(last.cx, last.svc) = NoCell
    /\ Usable(parent[last.cx])
    /\ CellOf(parent[last.cx], last.svc).this = last.prov
    /\ pstate[last.prov] = "boxed" /\ dropCalls[last.prov] = 0

\* The provider p is held by a cell of some live Context.
Reachable(p) ==
    \E c \in Ctx, t \in TypeIds : cstate[c] = "live" /\ providers[c][t].this = p

\* C9: drop_provider runs at most once on every provider that was boxed by
\* a bind, and once no live Context's map holds a cell for it, it has run
\* exactly once.
C9_ReleasedExactlyOnce ==
    \A p \in Prov :
        /\ dropCalls[p] <= 1
        /\ pstate[p] \in {"unalloc", "dropped"} => dropCalls[p] = 0
        /\ (pstate[p] \in {"boxed", "freed"} /\ ~Reachable(p)) =>
              (dropCalls[p] = 1 /\ pstate[p] = "freed")

\* Every Context has been dropped, a sub-context last, after both providers
\* were boxed: each was released once.
C9_Witness ==
    /\ \A c \in Ctx : cstate[c] = "dropped"
    /\ last.op = "drop" /\ last.cx # Root
    /\ \A p \in Prov : pstate[p] = "freed" /\ dropCalls[p] = 1

\* C10 as stated: no live Context's map holds a cell whose provider has
\* been released.
C10_NoLiveCellOfReleased ==
    \A c \in Ctx, t \in TypeIds :
        (cstate[c] = "live" /\ providers[c][t] # NoCell) =>
            pstate[providers[c][t].this] = "boxed"

\* C11 as stated: a successful try_unbind of s on c releases the provider of
\* the removed cell exactly when no other live Context's map holds a cell of
\* that provider; when another one does, only c's map changes and the
\* provider stays boxed.
C11_UnbindReleasesIffUnshared ==
    [][ \A c \in Ctx, s \in Svc :
          (last'.op = "unbind" /\ last'.ok /\ last'.cx = c /\ last'.svc = s) =>
            LET p == CellOf(c, s).this
                shared == \E x \in Ctx \ {c}, t \in TypeIds :
                              cstate[x] = "live" /\ providers[x][t].this = p
            IN  /\ pstate[p] = "boxed"
                /\ CellOf(c, s)' = NoCell
                /\ \A x \in Ctx \ {c} : providers'[x] = providers[x]
                /\ (pstate'[p] = "freed") <=> ~shared
      ]_vars

\* C12: of the threads calling provide on one fresh Cached, exactly one
\* runs the wrapped provider, and it runs it once; no call returns before
\* that run's output is stored; every call returns the stored output.
C12_OneInitializer ==
    /\ calls[Shared] <= 1
    /\ Cardinality({t \in Threads : thr[t].pc \in {"init", "store"}}) <= 1
    /\ \A t \in Threads :
          thr[t].pc = "done" =>
            /\ calls[Shared] = 1
            /\ cache[Shared] # OnceCell_new
            /\ thr[t].out = cache[Shared].out
            /\ \A u \in Threads : thr[u].pc = "done" => thr[u].out = thr[t].out

\* Every thread has returned from provide: one ran the wrapped provider,
\* another waited for it, a third found the cell already initialized.
C12_Witness ==
    /\ \A t \in Threads : thr[t].pc = "done"
    /\ \E t \in Threads : ~thr[t].hit
    /\ \E t \in Threads : thr[t].waited
    /\ \E t \in Threads : thr[t].hit /\ ~thr[t].waited
    /\ calls[Shared] = 1

\* The provider value p is Cached::new of the closure k.
IsCached(p, k) == pimpl[p] = ImplOf(Cached(Closure(k)))

\* C13: every resolution that goes through one boxed Cached wrapping the
\* counting closure returns the count of the closure's first call, which
\* stays the only call: the first resolution runs the closure and stores
\* its output, every later one finds the cell initialized and runs nothing.
C13_CountingRunsOnce ==
    [][ \A p \in Prov :
          (last'.op = "resolve" /\ last'.ok /\ last'.prov = p
              /\ IsCached(p, "Counting")) =>
            /\ last'.out = ToString(1)
            /\ calls'[p] = 1
            /\ cache'[p].out = ToString(1)
            /\ last'.hit <=> cache[p] # OnceCell_new
            /\ last'.hit => (calls' = calls /\ cache' = cache)
            /\ ~last'.hit => calls[p] = 0
      ]_vars

\* A resolution through a Cached counting closure found the cell already
\* initialized: it is at least the second one.
C13_Witness ==
    /\ last.op = "resolve" /\ last.ok /\ last.hit
    /\ IsCached(last.prov, "Counting")
    /\ last.out = ToString(1) /\ calls[last.prov] = 1

\* The output of a provider that stands for failure.
Failure == "Err(InvalidAuth)"

\* C14: when the closure wrapped by a boxed Cached returns the failure value
\* from its first call, that value is stored; every later resolution through
\* that Cached returns the same failure and does not run the closure,
\* whatever the closure would return if it were run again.
C14_FailureIsCached ==
    [][ \A p \in Prov :
          (last'.op = "resolve" /\ last'.ok /\ last'.prov = p
              /\ pimpl[p].cached) =>
            /\ (~last'.hit /\ last'.out = Failure) => cache'[p].out = Failure
            /\ cache[p].out = Failure =>
                  /\ last'.hit /\ last'.out = Failure
                  /\ calls' = calls /\ cache' = cache
      ]_vars

\* A resolution through a Cached closure returned the stored failure
\* although the closure, run again in that Context, would return Ok.
C14_Witness ==
    /\ last.op = "resolve" /\ last.ok /\ last.hit /\ last.out = Failure
    /\ pimpl[last.prov].cached /\ calls[last.prov] = 1
    /\ Usable(last.cx)
    /\ \A r \in Inner_provide(last.prov, last.cx,
                              [cache |-> cache, calls |-> calls]) :
          r.out = "Ok(admin)"

\* C15: while service s is bound in Context c to a CachedService holding v,
\* every try_resolve of s on c returns Some(v), a reference into that
\* provider, runs no provider's body, initializes no OnceCell and changes
\* nothing else; and a bind or unbind of another service on c leaves the
\* cell of s, the provider and the value it holds as they were.
C15_FixedValueProvider ==
    [][ \A c \in Ctx, s \in Svc :
          LET p == CellOf(c, s).this
          IN  (CellOf(c, s) # NoCell /\ pimpl[p].kind = "CachedService") =>
                /\ (last'.op = "resolve" /\ last'.cx = c /\ last'.svc = s) =>
                      /\ last'.ok /\ ~last'.panic
                      /\ last'.out = pval[p]
                      /\ last'.prov = p /\ last'.refs = {p}
                      /\ calls' = calls /\ cache' = cache
                      /\ UNCHANGED <<cstate, parent, usable, providers, pstate,
                                     pval, dropCalls, nextCtx, nextProv, pimpl>>
                /\ (last'.op \in {"bind", "unbind"} /\ last'.cx = c
                       /\ last'.svc # s) =>
                      /\ CellOf(c, s)' = CellOf(c, s)
                      /\ pval'[p] = pval[p] /\ pimpl'[p] = pimpl[p]
                      /\ pstate'[p] = pstate[p]
      ]_vars

\* A service bound to a CachedService was resolved in a Context whose other
\* service was bound later, to a Cached closure, which has run.
C15_Witness ==
    /\ last.op = "resolve" /\ last.ok
    /\ pimpl[last.prov].kind = "CachedService"
    /\ last.out = pval[last.prov]
    /\ \E s \in Svc \ {last.svc} :
          /\ CellOf(last.cx, s) # NoCell
          /\ pimpl[CellOf(last.cx, s).this].cached
          /\ calls[CellOf(last.cx, s).this] = 1
          /\ CellOf(last.cx, s).this > last.prov

\* C16: a try_resolve of "B" on Context c that runs the hello_world closure
\* hands it c itself: the closure's resolve of "A" finds what c's own map
\* holds for "A", also when c holds the closure as a cell inherited from its
\* parent.  With "A" bound in c to a CachedService the call returns
\* Ok(admin) when that holds "admin" and Err otherwise, and the User borrows
\* from that CachedService; with "A" vacant in c the call panics.
C16_ProviderGetsResolver ==
    [][ \A c \in Ctx :
          LET p == CellOf(c, "B").this
              q == CellOf(c, "A").this
          IN  (last'.op = "resolve" /\ last'.cx = c /\ last'.svc = "B"
                  /\ CellOf(c, "B") # NoCell /\ pimpl[p].kind = "Auth"
                  /\ ~last'.hit) =>
                /\ calls'[p] = calls[p] + 1
                /\ CellOf(c, "A") = NoCell => (last'.panic /\ ~last'.ok)
                /\ (CellOf(c, "A") # NoCell
                       /\ pimpl[q].kind = "CachedService") =>
                      /\ last'.ok
                      /\ last'.out = IF pval[q] = "admin"
                                     THEN "Ok(admin)" ELSE Failure
                      /\ pval[q] = "admin" => q \in last'.refs
      ]_vars

\* A sub-context resolved "B" through the closure it inherited from the
\* root and got Ok(admin) from its own binding of "A", which the root does
\* not have.
C16_Witness ==
    /\ last.op = "resolve" /\ last.ok /\ last.svc = "B" /\ last.cx # Root
    /\ Inherited(last.cx, "B") /\ pimpl[last.prov] = ImplOf(Closure("Auth"))
    /\ last.out = "Ok(admin)"
    /\ CellOf(last.cx, "A").drop_fn
    /\ Usable(Root) /\ CellOf(Root, "A") = NoCell
    /\ CellOf(Root, "B").this = last.prov

\* What a try_resolve of s on c returns, apart from whether a OnceCell was
\* found initialized: None or Some(output) or a panic, and from which
\* provider.
Results(c, s) ==
    {<<r.ok, r.panic, r.out, r.prov, r.refs>> : r \in ResolveRuns(c, s)}

\* Service s is bound in c to the bare counting closure, whose output is
\* its own count of calls.
BareCounting(c, s) ==
    CellOf(c, s) # NoCell
        /\ pimpl[CellOf(c, s).this] = ImplOf(Closure("Counting"))

Fallible(r) == [r EXCEPT !.via = "try", !.panic = FALSE]

\* C18: every call of bind_with, bind_fn, bind, unbind or resolve changes
\* the state as try_bind_with, try_unbind or try_resolve does from the same
\* state with the same arguments, panics exactly when that call returns
\* Err (None for resolve), and otherwise returns what it returns.
C18_PanickingIsFallible ==
    [][ \A c \in Ctx, s \in Svc :
          (last'.cx = c /\ last'.svc = s) =>
            /\ last'.via \in {"bind_with", "bind_fn", "bind"} =>
                  /\ \E P \in VeneerProviders : try_bind_with_effect(c, s, P)
                  /\ Fallible(last') = BindCall(c, s)
                  /\ last'.panic <=> ~BindCall(c, s).ok
            /\ last'.via = "unbind" =>
                  /\ try_unbind_effect(c, s)
                  /\ Fallible(last') = UnbindCall(c, s)
                  /\ last'.panic <=> ~UnbindCall(c, s).ok
            /\ last'.via = "resolve" =>
                  \E r \in ResolveRuns(c, s) :
                      /\ try_resolve_effect(c, s, r)
                      /\ Fallible(last') = ResolveCall(c, s, r)
                      /\ last'.panic <=> ~r.ok
                      /\ ~last'.panic => last'.out = r.out
      ]_vars

\* resolve panicked on a sub-context from which unbind had removed the
\* service its parent still has.
C18_Witness ==
    /\ last.via = "resolve" /\ last.panic /\ ~last.ok
    /\ last.cx # Root /\ Usable(last.cx)
    /\ CellOf(last.cx, last.svc) = NoCell
    /\ Usable(Root) /\ CellOf(Root, last.svc) # NoCell

\* C19 as stated: the value a resolve has just returned, and the value
\* stored in the OnceCell of every boxed Cached, borrow only from providers
\* that are still boxed.
C19_NoValueOfReleased ==
    /\ (last.op = "resolve" /\ last.ok) =>
          \A q \in last.refs : pstate[q] = "boxed"
    /\ \A p \in Prov :
          (pstate[p] = "boxed" /\ pimpl[p].cached) =>
              \A q \in cache[p].refs : pstate[q] = "boxed"

Inside(t) == thr[t].pc \notin {"idle", "done", "panicked"}

\* C21: with wrapped providers that terminate and resolve nothing of their
\* own key, and threads scheduled fairly, every call of provide on the
\* shared Cached comes to its end, and no thread stays waiting on the cell;
\* a call ends other than by returning only where the wrapped provider
\* itself panicked in that thread.
C21_EveryResolveReturns ==
    /\ \A t \in Threads : Inside(t) ~> ~Inside(t)
    /\ \A t \in Threads : (thr[t].pc = "wait") ~> (thr[t].pc = "done")
    /\ \A t \in Threads :
          (Inside(t) /\ ~IsCached(Shared, "Panicky")) ~> (thr[t].pc = "done")
    /\ [](\A t \in Threads :
            thr[t].pc \in {"unwind", "panicked"} =>
                IsCached(Shared, "Panicky") /\ ~thr[t].waited /\ ~thr[t].hit)

\* Every thread has returned from provide, two of them after waiting on
\* the cell while the third ran the wrapped provider.
C21_Witness ==
    /\ \A t \in Threads : thr[t].pc = "done"
    /\ Cardinality({t \in Threads : thr[t].waited}) = 2
    /\ ~IsCached(Shared, "Panicky")

\* C22: when the wrapped provider panics in the first computation of the
\* shared Cached, the cell is left uninitialized and no initializer is left
\* running; nothing is cached until the wrapped provider has run again;
\* the threads that waited on the panicked computation return; and a call
\* made after the panic ends with the wrapped provider having run a second
\* time and its output stored and returned.
C22_PanicLeavesCellEmpty ==
    /\ [][\A t \in Threads :
            (thr[t].pc = "unwind" /\ thr'[t].pc = "panicked") =>
                /\ cache'[Shared] = OnceCell_new
                /\ running'[Shared] = 0
                /\ calls'[Shared] = 1
        ]_vars
    /\ [](IsCached(Shared, "Panicky") =>
            /\ calls[Shared] <= 2
            /\ calls[Shared] <= 1 => cache[Shared] = OnceCell_new
            /\ cache[Shared] # OnceCell_new =>
                  cache[Shared].out = "Ok(admin)" /\ calls[Shared] = 2)
    /\ \A t \in Threads :
          (IsCached(Shared, "Panicky") /\ thr[t].pc = "wait")
              ~> (thr[t].pc = "done" /\ thr[t].out = "Ok(admin)")
    /\ \A t \in Threads :
          (IsCached(Shared, "Panicky") /\ calls[Shared] = 1
                                      /\ thr[t].pc = "get")
              ~> (/\ thr[t].pc = "done"
                  /\ thr[t].out = "Ok(admin)"
                  /\ calls[Shared] = 2
                  /\ cache[Shared].out = "Ok(admin)")

\* The wrapped provider panicked in one thread; a thread that waited on
\* that computation then ran the wrapped provider itself and returned its
\* output, which is the one stored.
C22_Witness ==
    /\ IsCached(Shared, "Panicky")
    /\ \E t \in Threads : thr[t].pc = "panicked"
    /\ \E u \in Threads :
          /\ thr[u].pc = "done" /\ thr[u].waited /\ ~thr[u].hit
          /\ thr[u].out = "Ok(admin)"
    /\ cache[Shared].out = "Ok(admin)"
    /\ calls[Shared] = 2

\* The places, Context and key, whose cell is the original cell of the
\* provider value p.
BindingsOf(p) ==
    {ct \in Ctx \X TypeIds :
        providers[ct[1]][ct[2]].this = p /\ providers[ct[1]][ct[2]].drop_fn}

\* C23: a try_bind_with of s on a Context whose map has no cell for s
\* succeeds and adds the one cell, of the boxed provider, to that map; a
\* try_unbind of s that comes next on the same Context succeeds, takes that
\* cell out again, which leaves the map as it was before the bind, and
\* releases the provider, once; s has no cell then, so a later bind of it
\* succeeds.  A provider that is boxed is the binding of one key in one
\* Context, and no provider is released twice.
C23_BindUnbindRoundTrip ==
    /\ [][\A c \in Ctx, s \in Svc :
            /\ (last'.op = "bind" /\ last'.cx = c /\ last'.svc = s
                    /\ CellOf(c, s) = NoCell) =>
                  /\ last'.ok
                  /\ providers' = [providers EXCEPT ![c][TypeId_of(s)] =
                                      DynProvider_new(s, last'.prov)]
                  /\ pstate'[last'.prov] = "boxed"
                  /\ dropCalls'[last'.prov] = 0
            /\ (last.op = "bind" /\ last.ok /\ last.cx = c /\ last.svc = s
                    /\ last'.op = "unbind" /\ last'.cx = c /\ last'.svc = s) =>
                  /\ last'.ok
                  /\ last'.prov = last.prov
                  /\ CellOf(c, s) = DynProvider_new(s, last.prov)
                  /\ providers' = [providers EXCEPT ![c][TypeId_of(s)] = NoCell]
                  /\ pstate[last.prov] = "boxed"
                  /\ pstate'[last.prov] = "freed"
                  /\ dropCalls[last.prov] = 0
                  /\ dropCalls'[last.prov] = 1
                  /\ \A q \in Prov \ {last.prov} :
                        pstate'[q] = pstate[q] /\ dropCalls'[q] = dropCalls[q]
        ]_vars
    /\ [](\A p \in Prov :
            /\ dropCalls[p] <= 1
            /\ Cardinality(BindingsOf(p)) <= 1
            /\ pstate[p] = "boxed" =>
                  \E ct \in BindingsOf(p) : cstate[ct[1]] = "live")

\* A provider was bound and unbound again and released once, and the same
\* service has then been bound, on the same Context, to the next provider.
C23_Witness ==
    /\ last.op = "bind" /\ last.ok /\ last.prov = 2
    /\ pstate[1] = "freed" /\ dropCalls[1] = 1
    /\ BindingsOf(1) = {}
    /\ BindingsOf(2) = {<<last.cx, TypeId_of(last.svc)>>}
    /\ \A c \in Ctx, t \in TypeIds : providers[c][t].this # 1

====
